---- MODULE Spec2Model ----
(***************************************************************************)
(* WebsocketClient of vnpy_evo/websocket/websocket_client.py: the worker   *)
(* thread (_run), the ping thread (_run_ping) and one controlling thread   *)
(* that call start(), send_packet(), stop() and join().                   *)
(*                                                                         *)
(* A transport handle is a positive number (0 is None).  An exception is   *)
(* known by its class only: "T" is one of the classes the worker's first   *)
(* except clause names (WebSocketConnectionClosedException,                *)
(* WebSocketBadStatusException, socket.error), "O" is any other class.     *)
(* The transport and the overridable callbacks are the environment: every  *)
(* call of them returns or raises.                                         *)
(***************************************************************************)
EXTENDS Integers, Sequences, FiniteSets, TLC

\* ---- bounds of the model ----
MaxEnv == 3         \* what the environment does in one run: successful connects,
                    \*   non-empty frames, injected failures and send_packet calls
PingInterval == 1   \* self.ping_interval, in seconds (a parameter of init())

\* ---- program constants ----
LastTextCap == 1000

VARIABLES
    active,         \* self._active
    ws,             \* self._ws (0 is None)
    lock,           \* holder of self._ws_lock: "free", "worker" or "ctl"
    nextId,         \* number of transports created so far
    open,           \* transports created and not yet closed
    last_sent_text, \* self._last_sent_text
    last_received_text, \* self._last_received_text
    wpc,            \* worker thread: position in _run
    wctx,           \* worker thread: "try" (207-226), "handler" (234, 239-240),
                    \*   "outer" (242-243) or "final" (244)
    wws,            \* worker thread: local ws of _run
    wdws,           \* worker thread: local ws of _disconnect
    ppc,            \* ping thread: position in _run_ping
    pws,            \* ping thread: local ws of _ping
    pi,             \* ping thread: i of the sleep loop
    cpc,            \* controlling thread: position
    cdws,           \* controlling thread: local ws of _disconnect
    used,           \* how much of MaxEnv the run has used
    events,         \* history: on_connected "C", on_disconnected "D", on_packet "P",
                    \*   each with the transport it is about
    wexc,           \* worker thread: the exception being handled (sys.exc_info())
    gsrc,           \* history: what raised first in the worker's current iteration
                    \*   ("empty": recv returned nothing)
    gcls,           \* history: the class of that exception
    gErrs,          \* history: what the worker reported to on_error in this iteration
    ctlRaised,      \* history: the call that last raised into the controlling thread
    call,           \* history: the controlling thread's last call, when it is a
                    \*   send_packet: the handle the test of 151 saw, and how the
                    \*   call went on
    psl,            \* history: the sleeps of one second the ping thread has begun
                    \*   with active false since it last tested its while condition
    subclassed,     \* the callbacks are overridden (FALSE: WebsocketClient's own)
    texts,          \* history: the whole text of the last send_packet call and of
                    \*   the last frame received
    stopSaw         \* history: while stop() runs, the handle that was installed
                    \*   when it was called

vars == <<active, ws, lock, nextId, open, last_sent_text, last_received_text,
          wpc, wctx, wws, wdws, ppc, pws, pi, cpc, cdws, used,
          events, wexc, gsrc, gcls, gErrs, ctlRaised, call, psl, subclassed, texts, stopSaw>>

shared == <<active, ws, lock, nextId, open>>
diag == <<last_sent_text, last_received_text>>
wvars == <<wpc, wctx, wws, wdws, wexc>>
pvars == <<ppc, pws, pi>>
cvars == <<cpc, cdws>>
whist == <<gsrc, gcls, gErrs>>

None == 0
Classes == {"T", "O"}
Outcomes == {"ok", "T", "O"}

\* A text is known by its kind and its length.
TextLens == {LastTextCap - 1, LastTextCap + 1}
Texts == [kind : {"json", "notjson"}, len : TextLens]
NoText == [kind |-> "None", len |-> 0]

Min(a, b) == IF a < b THEN a ELSE b

\* The whole text, whatever its length.
Truncate_Whole(text) == text

\* text[:1000]
Truncate(text) == [kind |-> text.kind, len |-> Min(text.len, LastTextCap)]

\* json.loads: a dict, or ValueError
unpack_data(text) == IF text.kind = "json" THEN "ok" ELSE "ValueError"

\* The environment acts while the budget lasts; a call that raises r is an
\* injected failure.
CanFault == used < MaxEnv
Fault(r) == /\ (r # "ok" => CanFault)
            /\ used' = IF r = "ok" THEN used ELSE used + 1

\* WebsocketClient's own callbacks, by how a call of them ends.
\* 277-281, 283-287: def on_connected(self): pass; def on_disconnected(self): pass
on_connected == {"ok"}
on_disconnected == {"ok"}
\* 289-293: def on_packet(packet: dict): pass. There is no self parameter, so
\* the call self.on_packet(data) of 226 raises TypeError.
on_packet == {"O"}
\* 295-300: on_error writes exception_detail(...) to sys.stderr and calls
\* sys.excepthook, with no try around either: a write that fails (a text the
\* stream cannot encode, a closed stream) raises out of on_error.
on_error == {"ok", "O"}

\* How a call of a callback may end: an overriding method returns or raises.
Callback(own) == IF subclassed THEN Outcomes ELSE own

NoCall == [saw |-> None, res |-> "none"]

Init ==
    /\ active = FALSE
    /\ ws = None
    /\ lock = "free"
    /\ nextId = 0
    /\ open = {}
    /\ last_sent_text = NoText
    /\ last_received_text = NoText
    /\ wpc = "unstarted" /\ wctx = "try" /\ wws = None /\ wdws = None
    /\ wexc = "none"
    /\ ppc = "unstarted" /\ pws = None /\ pi = 0
    /\ cpc = "new" /\ cdws = None
    /\ used = 0
    /\ events = <<>>
    /\ gsrc = "none" /\ gcls = "none" /\ gErrs = <<>>
    /\ ctlRaised = "none"
    /\ call = NoCall
    /\ psl = 0
    /\ subclassed \in BOOLEAN
    /\ texts = [sent |-> NoText, recv |-> NoText]
    /\ stopSaw = None

(***************************************************************************)
(* Worker thread: _run, with _ensure_connection and _disconnect inlined.   *)
(***************************************************************************)

\* WRaise with one except clause for every class (the first clause, 229-234, lost).
WRaise_OneHandler(src, cls) ==
    /\ wpc' = IF wctx \in {"try", "handler"} THEN "on_error" ELSE "dead"
    /\ wctx' = CASE wctx = "try" -> "handler"
                 [] wctx = "handler" -> "outer"
                 [] OTHER -> wctx
    /\ wexc' = src
    /\ gsrc' = IF gsrc = "none" THEN src ELSE gsrc
    /\ gcls' = IF gsrc = "none" THEN cls ELSE gcls

\* An exception of class cls raised by src in the worker: where control goes.
\* In the try body (207-226) class T goes to the first except clause (234) and
\* any other class to the second (238-240); an exception raised inside an
\* except clause leaves the while loop for the outer handler (242-243); one
\* raised in the outer handler or in the last _disconnect (244) ends the thread.
WRaise(src, cls) ==
    /\ wpc' = CASE wctx = "try" -> (IF cls = "T" THEN "d_lock" ELSE "on_error")
                [] wctx = "handler" -> "on_error"
                [] OTHER -> "dead"
    /\ wctx' = CASE wctx = "try" -> "handler"
                 [] wctx = "handler" -> "outer"
                 [] OTHER -> wctx
    /\ wexc' = src
    /\ gsrc' = IF gsrc = "none" THEN src ELSE gsrc
    /\ gcls' = IF gsrc = "none" THEN cls ELSE gcls

\* _disconnect returns: to the loop test from 214-215, 234 and 240, to the end
\* of the thread from 244.
WReturn ==
    /\ wpc' = IF wctx = "final" THEN "exited" ELSE "loop"
    /\ wctx' = IF wctx = "final" THEN "final" ELSE "try"
    /\ wexc' = "none"
    /\ UNCHANGED <<gsrc, gcls>>

\* 205: while self._active
WLoop ==
    /\ wpc = "loop"
    /\ IF active
       THEN wpc' = "ensure" /\ wctx' = "try"
       ELSE wpc' = "d_lock" /\ wctx' = "final"
    /\ wexc' = "none" /\ gsrc' = "none" /\ gcls' = "none" /\ gErrs' = <<>>
    /\ UNCHANGED <<shared, diag, wws, wdws, pvars, cvars, used, events,
                   ctlRaised, call, psl, subclassed, texts, stopSaw>>

\* _ensure_connection that connects without testing self._ws.
WEnsureLock_NoTest ==
    /\ wpc = "ensure"
    /\ lock = "free"
    /\ lock' = "worker" /\ wpc' = "connect"
    /\ UNCHANGED <<active, ws, nextId, open, diag, wctx, wws, wdws, wexc, pvars,
                   cvars, used, events, whist, ctlRaised, call, psl, subclassed, texts, stopSaw>>

\* 171-172: with self._ws_lock: if self._ws is None
WEnsureLock ==
    /\ wpc = "ensure"
    /\ lock = "free"
    /\ IF ws = None
       THEN lock' = "worker" /\ wpc' = "connect"
       ELSE lock' = "free" /\ wpc' = "read_ws"
    /\ UNCHANGED <<active, ws, nextId, open, diag, wctx, wws, wdws, wexc, pvars,
                   cvars, used, events, whist, ctlRaised, call, psl, subclassed, texts, stopSaw>>

\* _ensure_connection that calls on_connected inside the with block.
WConnectOk_KeepsLock ==
    /\ wpc = "connect"
    /\ CanFault
    /\ used' = used + 1
    /\ nextId' = nextId + 1
    /\ ws' = nextId + 1
    /\ open' = open \cup {nextId + 1}
    /\ wpc' = "on_connected"
    /\ UNCHANGED <<active, lock, diag, wctx, wws, wdws, wexc, pvars, cvars,
                   events, whist, ctlRaised, call, psl, subclassed, texts, stopSaw>>

\* 173-180: self._ws = self._create_connection(...), the lock held; the with
\* statement releases the lock when the connect raises
WConnectOk ==
    /\ wpc = "connect"
    /\ CanFault
    /\ used' = used + 1
    /\ nextId' = nextId + 1
    /\ ws' = nextId + 1
    /\ open' = open \cup {nextId + 1}
    /\ lock' = "free"
    /\ wpc' = "on_connected"
    /\ UNCHANGED <<active, diag, wctx, wws, wdws, wexc, pvars, cvars,
                   events, whist, ctlRaised, call, psl, subclassed, texts, stopSaw>>

\* A failed connect that leaves the lock held.
WConnectFail_KeepsLock ==
    /\ wpc = "connect"
    /\ \E cls \in Classes :
         /\ (cls = "O" => CanFault)
         /\ used' = IF cls = "O" THEN used + 1 ELSE used
         /\ WRaise("connect", cls)
    /\ UNCHANGED <<active, ws, lock, nextId, open, diag, wws, wdws, pvars, cvars,
                   events, gErrs, ctlRaised, call, psl, subclassed, texts, stopSaw>>

WConnectFail ==
    /\ wpc = "connect"
    /\ \E cls \in Classes :
         /\ (cls = "O" => CanFault)
         /\ used' = IF cls = "O" THEN used + 1 ELSE used
         /\ WRaise("connect", cls)
    /\ lock' = "free"
    /\ UNCHANGED <<active, ws, nextId, open, diag, wws, wdws, pvars, cvars, events, gErrs, ctlRaised, call, psl, subclassed, texts, stopSaw>>

\* 182-183: if triggered: self.on_connected()
WOnConnected ==
    /\ wpc = "on_connected"
    /\ events' = Append(events, <<"C", nextId>>)
    /\ \E r \in Callback(on_connected) :
         /\ Fault(r)
         /\ IF r = "ok"
            THEN wpc' = "read_ws" /\ UNCHANGED <<wctx, wexc, gsrc, gcls>>
            ELSE WRaise("on_connected", r)
    /\ UNCHANGED <<shared, diag, wws, wdws, pvars, cvars, gErrs, ctlRaised, call, psl, subclassed, texts, stopSaw>>

\* 208-209: ws = self._ws; if ws
WReadWs ==
    /\ wpc = "read_ws"
    /\ wws' = ws
    /\ wpc' = IF ws # None THEN "recv" ELSE "loop"
    /\ UNCHANGED <<shared, diag, wctx, wdws, wexc, pvars, cvars, used,
                   events, whist, ctlRaised, call, psl, subclassed, texts, stopSaw>>

\* 210, 217-223: text = ws.recv() gives a non-empty text, which is recorded and
\* unpacked; a ValueError of unpack_data is printed and raised again
WRecvText ==
    /\ wpc = "recv"
    /\ wws \in open
    /\ CanFault
    /\ used' = used + 1
    /\ \E text \in Texts :
         /\ last_received_text' = Truncate(text)
         /\ texts' = [texts EXCEPT !.recv = text]
         /\ IF unpack_data(text) = "ok"
            THEN wpc' = "on_packet" /\ UNCHANGED <<wctx, wexc, gsrc, gcls>>
            ELSE WRaise("unpack_data", "O")
    /\ UNCHANGED <<shared, last_sent_text, wws, wdws, pvars, cvars, events,
                   gErrs, ctlRaised, call, psl, subclassed, stopSaw>>

\* 210, 213-215: text = ws.recv() gives nothing: self._disconnect(); continue
WRecvEmpty ==
    /\ wpc = "recv"
    /\ wpc' = "d_lock"
    /\ gsrc' = "empty"
    /\ UNCHANGED <<shared, diag, wctx, wws, wdws, wexc, pvars, cvars, used,
                   events, gcls, gErrs, ctlRaised, call, psl, subclassed, texts, stopSaw>>

\* 210: ws.recv() raises (a closed socket: class T; a timeout: class O)
WRecvRaise ==
    /\ wpc = "recv"
    /\ \E cls \in Classes :
         /\ (cls = "O" => CanFault)
         /\ used' = IF cls = "O" THEN used + 1 ELSE used
         /\ WRaise("recv", cls)
    /\ UNCHANGED <<shared, diag, wws, wdws, pvars, cvars, events, gErrs,
                   ctlRaised, call, psl, subclassed, texts, stopSaw>>

\* 225-226: self.on_packet(data)
WOnPacket ==
    /\ wpc = "on_packet"
    /\ events' = Append(events, <<"P", wws>>)
    /\ \E r \in Callback(on_packet) :
         /\ IF subclassed THEN Fault(r) ELSE used' = used
         /\ IF r = "ok"
            THEN wpc' = "loop" /\ UNCHANGED <<wctx, wexc, gsrc, gcls>>
            ELSE WRaise("on_packet", r)
    /\ UNCHANGED <<shared, diag, wws, wdws, pvars, cvars, gErrs, ctlRaised, call, psl, subclassed, texts, stopSaw>>

\* 238-239 and 242-243: et, ev, tb = sys.exc_info(); self.on_error(et, ev, tb);
\* the inner handler goes on to _disconnect (240), the outer one to 244
WOnError ==
    /\ wpc = "on_error"
    /\ gErrs' = Append(gErrs, wexc)
    /\ \E r \in Callback(on_error) \ {"T"} :
         /\ Fault(r)
         /\ IF r = "ok"
            THEN /\ wpc' = "d_lock"
                 /\ wctx' = IF wctx = "outer" THEN "final" ELSE wctx
                 /\ UNCHANGED <<wexc, gsrc, gcls>>
            ELSE WRaise("on_error", r)
    /\ UNCHANGED <<shared, diag, wws, wdws, pvars, cvars, events, ctlRaised, call, psl, subclassed, texts, stopSaw>>

\* _disconnect that fires on_disconnected before it closes the transport.
WDisconnectLock_CallbackFirst ==
    /\ wpc = "d_lock"
    /\ lock = "free"
    /\ IF ws # None
       THEN /\ wdws' = ws /\ ws' = None /\ wpc' = "d_cb"
            /\ UNCHANGED <<wctx, wexc, gsrc, gcls>>
       ELSE /\ WReturn /\ UNCHANGED <<wdws, ws>>
    /\ UNCHANGED <<active, lock, nextId, open, diag, wws, pvars, cvars, used,
                   events, gErrs, ctlRaised, call, psl, subclassed, texts, stopSaw>>

\* 189-194: with self._ws_lock: if self._ws: ws = self._ws; self._ws = None
WDisconnectLock ==
    /\ wpc = "d_lock"
    /\ lock = "free"
    /\ IF ws # None
       THEN /\ wdws' = ws /\ ws' = None /\ wpc' = "d_close"
            /\ UNCHANGED <<wctx, wexc, gsrc, gcls>>
       ELSE /\ WReturn /\ UNCHANGED <<wdws, ws>>
    /\ UNCHANGED <<active, lock, nextId, open, diag, wws, pvars, cvars, used,
                   events, gErrs, ctlRaised, call, psl, subclassed, texts, stopSaw>>

\* 197: ws.close(); a close that raises may or may not have closed the socket
WDisconnectClose ==
    /\ wpc = "d_close"
    /\ \E r \in Outcomes, stillOpen \in BOOLEAN :
         /\ Fault(r)
         /\ (r = "ok" => ~stillOpen)
         /\ open' = IF stillOpen THEN open ELSE open \ {wdws}
         /\ IF r = "ok"
            THEN wpc' = "d_cb" /\ UNCHANGED <<wctx, wexc, gsrc, gcls>>
            ELSE WRaise("close", r)
    /\ UNCHANGED <<active, ws, lock, nextId, diag, wws, wdws, pvars, cvars, events, gErrs, ctlRaised, call, psl, subclassed, texts, stopSaw>>

\* 198: self.on_disconnected()
WOnDisconnected ==
    /\ wpc = "d_cb"
    /\ events' = Append(events, <<"D", wdws>>)
    /\ \E r \in Callback(on_disconnected) :
         /\ Fault(r)
         /\ IF r = "ok" THEN WReturn ELSE WRaise("on_disconnected", r)
    /\ UNCHANGED <<shared, diag, wws, wdws, pvars, cvars, gErrs, ctlRaised, call, psl, subclassed, texts, stopSaw>>

Worker ==
    \/ WLoop \/ WEnsureLock \/ WConnectOk \/ WConnectFail \/ WOnConnected
    \/ WReadWs \/ WRecvText \/ WRecvEmpty \/ WRecvRaise \/ WOnPacket \/ WOnError
    \/ WDisconnectLock \/ WDisconnectClose \/ WOnDisconnected

(***************************************************************************)
(* Ping thread: _run_ping and _ping.                                       *)
(***************************************************************************)

\* 256: while self._active; the thread's locals end with it
PLoop ==
    /\ ppc = "loop"
    /\ ppc' = IF active THEN "ping" ELSE "exited"
    /\ pws' = IF active THEN pws ELSE None
    /\ pi' = IF active THEN pi ELSE 0
    /\ psl' = 0
    /\ UNCHANGED <<shared, diag, wvars, cvars, used, events, whist,
                   ctlRaised, call, subclassed, texts, stopSaw>>

\* _ping that sends without testing ws.
PPing_NoTest ==
    /\ ppc = "ping"
    /\ pws' = ws
    /\ ppc' = "send"
    /\ pi' = 0
    /\ UNCHANGED <<shared, diag, wvars, cvars, used, events, whist, ctlRaised,
                   call, psl, subclassed, texts, stopSaw>>

\* 273-274: ws = self._ws; if ws
PPing ==
    /\ ppc = "ping"
    /\ pws' = ws
    /\ ppc' = IF ws # None THEN "send" ELSE "sleep_check"
    /\ pi' = 0
    /\ UNCHANGED <<shared, diag, wvars, cvars, used, events, whist, ctlRaised, call, psl, subclassed, texts, stopSaw>>

\* A ping thread that drops the handle when its heartbeat fails.
PSend_DropsHandle ==
    /\ ppc = "send"
    /\ \E r \in {"ok", "O"} :
         /\ (r = "ok" => pws \in open)
         /\ (r # "ok" /\ pws \in open => CanFault)
         /\ used' = IF r # "ok" /\ pws \in open THEN used + 1 ELSE used
         /\ ppc' = IF r = "ok" THEN "sleep_check" ELSE "on_error"
         /\ ws' = IF r = "ok" THEN ws ELSE None
    /\ pi' = 0
    /\ UNCHANGED <<active, lock, nextId, open, diag, wvars, pws, cvars, events, whist, ctlRaised, call, psl, subclassed, texts, stopSaw>>

\* 275: ws.send("ping", OPCODE_PING); a send on a closed socket raises
PSend ==
    /\ ppc = "send"
    /\ \E r \in {"ok", "O"} :
         /\ (r = "ok" => pws \in open)
         /\ (r # "ok" /\ pws \in open => CanFault)
         /\ used' = IF r # "ok" /\ pws \in open THEN used + 1 ELSE used
         /\ ppc' = IF r = "ok" THEN "sleep_check" ELSE "on_error"
    /\ pi' = 0
    /\ UNCHANGED <<shared, diag, wvars, pws, cvars, events, whist, ctlRaised, call, psl, subclassed, texts, stopSaw>>

\* 259-261: except: self.on_error(et, ev, tb); an on_error that raises ends the thread
POnError ==
    /\ ppc = "on_error"
    /\ \E r \in Callback(on_error) \ {"T"} :
         /\ Fault(r)
         /\ ppc' = IF r = "ok" THEN "grace" ELSE "dead"
    /\ UNCHANGED <<shared, diag, wvars, pws, pi, cvars, events, whist, ctlRaised, call, psl, subclassed, texts, stopSaw>>

\* 264: sleep(1)
PGrace ==
    /\ ppc = "grace"
    /\ ppc' = "sleep_check"
    /\ pi' = 0
    /\ psl' = IF active THEN psl ELSE psl + 1
    /\ UNCHANGED <<shared, diag, wvars, pws, cvars, used, events, whist,
                   ctlRaised, call, subclassed, texts, stopSaw>>

\* The sleep loop without the test of self._active (267-268).
PSleepCheck_IgnoresActive ==
    /\ ppc = "sleep_check"
    /\ ppc' = IF pi < PingInterval THEN "sleep" ELSE "loop"
    /\ UNCHANGED <<shared, diag, wvars, pws, pi, cvars, used, events, whist,
                   ctlRaised, call, psl, subclassed, texts, stopSaw>>

\* 266-268: for i in range(self.ping_interval): if not self._active: break
PSleepCheck ==
    /\ ppc = "sleep_check"
    /\ ppc' = IF pi < PingInterval /\ active THEN "sleep" ELSE "loop"
    /\ UNCHANGED <<shared, diag, wvars, pws, pi, cvars, used, events, whist,
                   ctlRaised, call, psl, subclassed, texts, stopSaw>>

\* 269: sleep(1)
PSleep ==
    /\ ppc = "sleep"
    /\ pi' = pi + 1
    /\ ppc' = "sleep_check"
    /\ psl' = IF active THEN psl ELSE psl + 1
    /\ UNCHANGED <<shared, diag, wvars, pws, cvars, used, events, whist,
                   ctlRaised, call, subclassed, texts, stopSaw>>

Ping == PLoop \/ PPing \/ PSend \/ POnError \/ PGrace \/ PSleepCheck \/ PSleep

(***************************************************************************)
(* Controlling thread: start(), send_packet(), stop(), join().             *)
(***************************************************************************)

\* Thread.join returns once the thread has ended, normally or by an exception.
WorkerEnded == wpc \in {"exited", "dead"}
PingEnded == ppc \in {"exited", "dead"}

\* 109-114: start()
CStart ==
    /\ cpc = "new"
    /\ active' = TRUE
    /\ wpc' = "loop"
    /\ ppc' = "loop"
    /\ cpc' = "running"
    /\ UNCHANGED <<ws, lock, nextId, open, diag, wctx, wws, wdws, wexc, pws, pi, cdws,
                   used, events, whist, ctlRaised, call, psl, subclassed, texts, stopSaw>>

\* _send_text without the test of self._ws (151).
CSendPacket_NoTest ==
    /\ cpc = "running"
    /\ CanFault
    /\ used' = used + 1
    /\ \E n \in TextLens :
         /\ last_sent_text' = Truncate([kind |-> "json", len |-> n])
         /\ texts' = [texts EXCEPT !.sent = [kind |-> "json", len |-> n]]
    /\ cpc' = "send"
    /\ call' = [saw |-> ws, res |-> "pending"]
    /\ ctlRaised' = "none"
    /\ UNCHANGED <<shared, last_received_text, wvars, pvars, cdws,
                   events, whist, psl, subclassed, stopSaw>>

\* 138-140, 151: send_packet: text = json.dumps(packet); record; if self._ws
CSendPacket ==
    /\ cpc = "running"
    /\ CanFault
    /\ used' = used + 1
    /\ \E n \in TextLens :
         /\ last_sent_text' = Truncate([kind |-> "json", len |-> n])
         /\ texts' = [texts EXCEPT !.sent = [kind |-> "json", len |-> n]]
    /\ cpc' = IF ws # None THEN "send" ELSE "running"
    /\ call' = [saw |-> ws, res |-> IF ws # None THEN "pending" ELSE "noop"]
    /\ ctlRaised' = "none"
    /\ UNCHANGED <<shared, last_received_text, wvars, pvars, cdws,
                   events, whist, psl, subclassed, stopSaw>>

\* 152: self._ws.send(text, ...): self._ws is read again; the send of None raises
\* AttributeError, and the transport's send may raise; both reach the caller
CSendText ==
    /\ cpc = "send"
    /\ \E r \in {"ok", "O"} :
         /\ (r = "ok" => ws \in open)
         /\ (r # "ok" /\ ws \in open => CanFault)
         /\ used' = IF r # "ok" /\ ws \in open THEN used + 1 ELSE used
         /\ ctlRaised' = IF r = "ok" THEN "none" ELSE "send_packet"
         /\ call' = [call EXCEPT !.res = CASE r = "ok" -> "sent"
                                            [] ws = None -> "AttributeError"
                                            [] OTHER -> "raised"]
    /\ cpc' = "running"
    /\ UNCHANGED <<shared, diag, wvars, pvars, cdws, events, whist, psl, subclassed, texts, stopSaw>>

\* stop() that forgets to clear the flag.
CStop_KeepsActive ==
    /\ cpc = "running"
    /\ cpc' = "d_lock"
    /\ ctlRaised' = "none"
    /\ stopSaw' = ws
    /\ UNCHANGED <<shared, diag, wvars, pvars, cdws, used, events, whist,
                   call, psl, subclassed, texts>>

\* 120: stop(): self._active = False
CStop ==
    /\ cpc = "running"
    /\ active' = FALSE
    /\ cpc' = "d_lock"
    /\ ctlRaised' = "none"
    /\ call' = NoCall
    /\ stopSaw' = ws
    /\ UNCHANGED <<ws, lock, nextId, open, diag, wvars, pvars, cdws, used, events,
                   whist, psl, subclassed, texts>>

\* 121, 189-194: _disconnect: with self._ws_lock: if self._ws: take it
CDisconnectLock ==
    /\ cpc = "d_lock"
    /\ lock = "free"
    /\ IF ws # None
       THEN cdws' = ws /\ ws' = None /\ cpc' = "d_close" /\ UNCHANGED stopSaw
       ELSE cpc' = "stopped" /\ stopSaw' = None /\ UNCHANGED <<cdws, ws>>
    /\ UNCHANGED <<active, lock, nextId, open, diag, wvars, pvars, used,
                   events, whist, ctlRaised, call, psl, subclassed, texts>>

\* 197: ws.close(); an exception reaches the caller of stop()
CDisconnectClose ==
    /\ cpc = "d_close"
    /\ \E r \in {"ok", "O"}, stillOpen \in BOOLEAN :
         /\ Fault(r)
         /\ (r = "ok" => ~stillOpen)
         /\ open' = IF stillOpen THEN open ELSE open \ {cdws}
         /\ cpc' = IF r = "ok" THEN "d_cb" ELSE "stopped"
         /\ ctlRaised' = IF r = "ok" THEN ctlRaised ELSE "stop"
         /\ stopSaw' = IF r = "ok" THEN stopSaw ELSE None
    /\ UNCHANGED <<active, ws, lock, nextId, diag, wvars, pvars, cdws, events, whist,
                   call, psl, subclassed, texts>>

\* 198: self.on_disconnected(); an exception reaches the caller of stop()
COnDisconnected ==
    /\ cpc = "d_cb"
    /\ events' = Append(events, <<"D", cdws>>)
    /\ \E r \in Callback(on_disconnected) \ {"T"} :
         /\ Fault(r)
         /\ ctlRaised' = IF r = "ok" THEN ctlRaised ELSE "stop"
    /\ cpc' = "stopped"
    /\ stopSaw' = None
    /\ UNCHANGED <<shared, diag, wvars, pvars, cdws, whist, call, psl, subclassed, texts>>

\* 129: self._ping_thread.join()
CJoinPing ==
    /\ cpc = "stopped"
    /\ PingEnded
    /\ cpc' = "join_worker"
    /\ UNCHANGED <<shared, diag, wvars, pvars, cdws, used, events,
                   whist, ctlRaised, call, psl, subclassed, texts, stopSaw>>

\* join() that does not wait for the worker thread.
CJoinWorker_NoWait ==
    /\ cpc = "join_worker"
    /\ cpc' = "joined"
    /\ UNCHANGED <<shared, diag, wvars, pvars, cdws, used, events, whist, ctlRaised, call, psl, subclassed, texts, stopSaw>>

\* 130: self._worker_thread.join()
CJoinWorker ==
    /\ cpc = "join_worker"
    /\ WorkerEnded
    /\ cpc' = "joined"
    /\ UNCHANGED <<shared, diag, wvars, pvars, cdws, used, events,
                   whist, ctlRaised, call, psl, subclassed, texts, stopSaw>>

Controller ==
    \/ CStart \/ CSendPacket \/ CSendText \/ CStop \/ CDisconnectLock
    \/ CDisconnectClose \/ COnDisconnected \/ CJoinPing \/ CJoinWorker

Next == Worker \/ Ping \/ Controller

Spec == Init /\ [][Next]_vars

\* Threads of one process are scheduled fairly, and a started stop() or join()
\* runs on.
FairSpec ==
    /\ Init /\ [][Next]_vars
    /\ WF_vars(Worker) /\ WF_vars(Ping)
    /\ WF_vars(CDisconnectLock \/ CDisconnectClose \/ COnDisconnected
               \/ CJoinPing \/ CJoinWorker)

(***************************************************************************)
(* Claims.                                                                 *)
(***************************************************************************)

\* The worker has left its while loop (205-240).
WorkerLeftLoop == WorkerEnded \/ wctx \in {"outer", "final"}

\* How often x occurs in the sequence q.
Count(q, x) == Cardinality({i \in 1..Len(q) : q[i] = x})

\* The on_connected and on_disconnected call, in order.
Lifecycle == SelectSeq(events, LAMBDA e : e[1] \in {"C", "D"})

\* C1: the on_connected and on_disconnected call alternate, on_connected first.
C1_Alternate ==
    \A i \in 1..Len(Lifecycle) :
        Lifecycle[i][1] = IF i % 2 = 1 THEN "C" ELSE "D"

\* C2: every on_packet call comes after the on_connected and before the
\* on_disconnected of the connection its message was received on.
C2_PacketInsideConnection ==
    \A i \in 1..Len(events) :
        events[i][1] = "P" =>
            /\ \E j \in 1..(i - 1) : events[j] = <<"C", events[i][2]>>
            /\ \A k \in 1..(i - 1) : events[k] # <<"D", events[i][2]>>

\* C3: after stop() and join() have returned, no on_connected, on_packet or
\* on_disconnected is called any more.
C3_QuietAfterJoin == [][cpc = "joined" => events' = events]_vars

C3_Witness == cpc = "joined" /\ Len(events) >= 2

\* C4: while active is true the worker does not leave its loop.
C4_WorkerRunsWhileActive == active => ~WorkerLeftLoop

\* C5: once stop() has been called (start() before it), the worker thread and
\* the ping thread both end, and the join() that follows returns.
C5_StopTerminates ==
    (cpc \notin {"new", "running", "send"}) ~> (WorkerEnded /\ PingEnded /\ cpc = "joined")

C5_Witness == cpc = "joined" /\ nextId > 0 /\ wpc = "exited" /\ ppc = "exited"

\* C6: when recv returns nothing while active is true, the worker fires exactly
\* one on_disconnected for that connection and stays in its loop, so that its
\* next iteration connects again.
C6_ReconnectAfterPeerClose ==
    gsrc = "empty" /\ active =>
        /\ ~WorkerLeftLoop
        /\ (wpc = "loop" => Count(events, <<"D", wws>>) = 1 /\ ws = None)

\* C7: when on_packet raises, on_error is called exactly once with that
\* exception, on_disconnected fires for the connection (by the time the worker
\* is back at its loop test, no stop() intervening), and the worker goes to its
\* next iteration.
C7_OnPacketRaises ==
    gsrc = "on_packet" =>
        /\ ~WorkerEnded /\ wctx # "final"
        /\ (wexc # "on_packet" => Count(gErrs, "on_packet") = 1)
        /\ (wpc = "d_lock" /\ wctx = "handler" => gErrs = <<"on_packet">>)
        /\ (wpc = "loop" => gErrs = <<"on_packet">>)
        /\ (wpc = "loop" /\ active => Count(events, <<"D", wws>>) = 1)
        /\ (active => ~WorkerLeftLoop)

\* C8: when unpack_data fails, on_packet is not called for the frame, on_error
\* is called exactly once with the decode error, on_disconnected follows (by
\* the time the worker is back at its loop test, no stop() intervening), and
\* the worker stays in its loop.
C8_DecodeFails ==
    gsrc = "unpack_data" =>
        /\ wpc # "on_packet"
        /\ (wpc # "on_error" \/ wctx # "handler" => Count(gErrs, "unpack_data") = 1)
        /\ (wpc = "loop" /\ active => Count(events, <<"D", wws>>) = 1)
        /\ (active => ~WorkerLeftLoop)

\* C9: no call of start(), send_packet() or stop() raises into its caller.
C9_NothingRaisedToCaller == ctlRaised = "none"

\* C10: every failed connect is reported to on_error once, and the worker goes
\* to its next iteration.
C10_ConnectFailureReported ==
    gsrc = "connect" =>
        /\ (wpc = "loop" => gErrs = <<"connect">>)
        /\ (active => ~WorkerLeftLoop)

\* C10, amended: a failed connect of class T is not reported to on_error; the
\* worker finds no handle to disconnect and goes to its next iteration, which
\* connects again.  A failed connect of another class is reported to on_error
\* exactly once, by the inner handler.  No handle is installed in either case.
C10_ConnectFailureByClass ==
    gsrc = "connect" =>
        /\ ws = None /\ lock = "free"
        /\ (gcls = "T" => gErrs = <<>> /\ wpc \in {"d_lock", "loop"}
                          /\ wctx \in {"handler", "try"})
        /\ (gcls = "O" /\ ~(wpc = "on_error" /\ wctx = "handler")
                => Count(gErrs, "connect") = 1)

C10_Witness == gsrc = "connect" /\ gcls = "T" /\ wpc = "loop" /\ active /\ nextId > 0


\* C11: a send_packet call whose test of the handle finds none sends nothing
\* and returns to its caller without an exception.
C11_SendWithoutHandle ==
    call.res # "none" /\ call.saw = None =>
        /\ call.res = "noop"
        /\ cpc # "send"
        /\ ctlRaised # "send_packet"

\* C11: send_packet has returned from a call made before the first connect.
C11_Witness == call.res = "noop" /\ nextId = 0 /\ cpc = "running" /\ wpc # "unstarted"

\* C12: at most one transport the client has created is open (created and
\* not yet closed).
C12_OneOpenTransport == Cardinality(open) <= 1

\* C13: no thread holds the connection lock at a point where it invokes
\* on_connected, on_packet, on_error or on_disconnected.
C13_CallbacksOutsideLock ==
    /\ (wpc \in {"on_connected", "on_packet", "on_error", "d_cb"} => lock # "worker")
    /\ (ppc = "on_error" => lock # "ping")
    /\ (cpc = "d_cb" => lock # "controller")

\* C13: the worker is about to invoke on_connected for the handle it installed.
C13_Witness == wpc = "on_connected" /\ ws = nextId /\ lock = "free"

\* A call of _disconnect that took handle h is between its lock and its return.
InDisconnect(h) ==
    \/ (wpc \in {"d_close", "d_cb"} /\ wdws = h)
    \/ (cpc \in {"d_close", "d_cb"} /\ cdws = h)

\* C14: on_disconnected is fired at most once for a handle, and once the
\* _disconnect that removed a handle is over, the handle's transport is closed
\* and on_disconnected has been fired exactly once for it.
C14_DisconnectOnce ==
    \A h \in 1..nextId :
        /\ Count(events, <<"D", h>>) <= 1
        /\ (h # ws /\ ~InDisconnect(h) =>
                h \notin open /\ Count(events, <<"D", h>>) = 1)

\* C15: _ensure_connection connects only when it found no handle installed,
\* and on_connected is fired exactly once for each handle installed (not yet,
\* while the worker is on its way from the connect to the callback).
C15_ConnectOnce ==
    /\ (wpc = "connect" => ws = None)
    /\ \A h \in 1..nextId :
           Count(events, <<"C", h>>) =
               IF wpc = "on_connected" /\ h = nextId THEN 0 ELSE 1

\* C15: _ensure_connection has returned from a call made with a handle installed.
C15_Witness ==
    wpc = "read_ws" /\ ws = 1 /\ nextId = 1 /\ events = <<<<"C", 1>>, <<"P", 1>>>>

\* C16: after a failed connect, until the worker tests its loop condition
\* again: no handle is installed, the lock is free, every on_connected fired
\* is for a connect that succeeded, and the worker is not connecting again.
C16_FailedConnect ==
    gsrc = "connect" =>
        /\ ws = None /\ lock = "free"
        /\ wpc \notin {"ensure", "connect", "on_connected", "read_ws", "recv", "on_packet"}
        /\ Cardinality({i \in 1..Len(events) : events[i][1] = "C"}) = nextId

\* C16: a connect has failed after an earlier one succeeded.
C16_Witness == gsrc = "connect" /\ gcls = "O" /\ wpc = "on_error" /\ nextId = 1

\* C17: the ping thread does not end while active is true.
C17_PingRunsWhileActive == active => ~PingEnded

\* C18: a ping-loop iteration that found no handle installed attempts no send
\* and invokes no on_error.
C18_NoHandleNoPing == pws = None => ppc \notin {"send", "on_error", "grace", "dead"}

\* C18: _ping has returned from a call that found no handle.
C18_Witness == ppc = "sleep_check" /\ pi = 0 /\ pws = None /\ active

\* C19: with active false, the ping thread begins at most one sleep of one
\* second before it tests its while condition and leaves.
C19_OneSleepAfterStop == psl <= 1

\* C19: the ping thread slept once after stop() and is back at its while test.
C19_Witness == psl = 1 /\ ppc = "loop" /\ ~active

\* C20: with WebsocketClient's own callbacks, on_packet raises nothing.
C20_DefaultOnPacketReturns == ~subclassed => gsrc # "on_packet"

\* C21: with WebsocketClient's own callbacks, no call of on_error raises into
\* the worker thread or ends the ping thread.
C21_DefaultOnErrorReturns == ~subclassed => wexc # "on_error" /\ ppc # "dead"

\* C22: the recorded last-sent and last-received texts are at most 1000
\* characters long, and each is the first 1000 characters of the text of the
\* last send_packet call, respectively of the last frame received.
C22_LastTextsCapped ==
    /\ last_sent_text.len <= LastTextCap
    /\ last_received_text.len <= LastTextCap
    /\ last_sent_text.kind = texts.sent.kind
    /\ last_sent_text.len =
           IF texts.sent.len > LastTextCap THEN LastTextCap ELSE texts.sent.len
    /\ last_received_text.kind = texts.recv.kind
    /\ last_received_text.len =
           IF texts.recv.len > LastTextCap THEN LastTextCap ELSE texts.recv.len

\* C22: a text longer than the cap has been sent and a shorter one, sent
\* before it, has been received.
C22_Witness ==
    /\ texts.sent.len = LastTextCap + 1 /\ last_sent_text.len = LastTextCap
    /\ texts.recv.len = LastTextCap - 1 /\ last_received_text.len = LastTextCap - 1

\* stop() is over: it has returned or raised.
StopOver == cpc \in {"stopped", "join_worker", "joined"}

\* C23: once the worker thread has ended (and stop(), if called, is over), no
\* handle is installed and every transport the client created is closed.
C23_AllClosedAtWorkerExit ==
    WorkerEnded /\ cpc \notin {"d_lock", "d_close", "d_cb"} => ws = None /\ open = {}

\* The step with which stop() returns, and what the claim says of it.
StopReturns == cpc \in {"d_lock", "d_cb"} /\ cpc' = "stopped" /\ ctlRaised' # "stop"
StopClosedHandle ==
    /\ ~active'
    /\ (stopSaw # None =>
            /\ ws' # stopSaw
            /\ stopSaw \notin open'
            /\ Count(events', <<"D", stopSaw>>) = 1)

\* C24: at the step with which stop() returns, active is false, and the
\* handle that was installed when stop() was called is removed, its transport
\* is closed and on_disconnected has been fired exactly once for it.
C24_StopClosesHandle == [][StopReturns => StopClosedHandle]_vars

\* C25: after a receive that returned nothing or raised a transport-class
\* error, the worker runs _disconnect and is back at its loop test, with no
\* on_error in between and without leaving the loop while active is true.
C25_TransportLoss ==
    gsrc = "empty" \/ (gsrc = "recv" /\ gcls = "T") =>
        /\ gErrs = <<>>
        /\ wpc \in {"d_lock", "d_close", "d_cb", "loop"}
        /\ (active => ~WorkerLeftLoop)

\* A step of the ping thread.
PingStep == ppc # "unstarted" /\ ppc' # ppc

\* C26: no step of the ping thread changes the handle field, the set of open
\* transports, the lock or the active flag.
C26_PingLeavesHandle == [][PingStep => UNCHANGED <<active, ws, open, nextId, lock>>]_vars

\* C26: a heartbeat on the installed handle has failed, and the handle is
\* still installed and open.
C26_Witness == ppc = "on_error" /\ pws # None /\ ws = pws /\ pws \in open /\ active

\* The worker installs a handle, or fires on_connected.
WorkerConnects == nextId' # nextId \/ (wpc = "on_connected" /\ wpc' # wpc)

\* C27: once stop() has returned, the worker installs no handle and fires no
\* on_connected.
C27_NoConnectAfterStop == [][StopOver /\ ctlRaised # "stop" => ~WorkerConnects]_vars

\* C28: a send_packet call whose test found a handle installed does not go on
\* to send on an absent handle.
C28_SendOnCheckedHandle == call.saw # None => call.res # "AttributeError"

\* C29: the ping thread is never at its ws.send with a handle that has been
\* removed and closed, and send_packet is never at its send with a closed
\* handle installed.
C29_NoSendOnClosedHandle ==
    /\ (ppc = "send" => pws = ws \/ pws \in open)
    /\ (cpc = "send" /\ ws # None => ws \in open)

\* stop() has not been called.
NoStop == cpc \in {"running", "send"}

\* C30: where on_connected is invoked a handle has been installed, and, stop()
\* not having been called, it is still installed and open; where
\* on_disconnected is invoked the handle it is for has been removed and its
\* transport closed, and, stop() not having been called, no handle is
\* installed; a handle on_disconnected was fired for stays removed and closed.
C30_CallbackOrder ==
    /\ (wpc = "on_connected" =>
            /\ nextId >= 1
            /\ (NoStop => ws = nextId /\ nextId \in open))
    /\ (wpc = "d_cb" =>
            /\ wdws # None /\ ws # wdws /\ wdws \notin open
            /\ (NoStop => ws = None))
    /\ (cpc = "d_cb" => cdws # None /\ ws # cdws /\ cdws \notin open)
    /\ \A i \in 1..Len(events) :
           events[i][1] = "D" => events[i][2] # ws /\ events[i][2] \notin open

\* C30: the worker is about to fire on_disconnected for a handle it fired
\* on_connected for, stop() not having been called.
C30_Witness ==
    wpc = "d_cb" /\ NoStop /\ ws = None /\ Count(events, <<"C", wdws>>) = 1

====
